---------------------------- MODULE Spec2Model ----------------------------
(***************************************************************************)
(* A model of waver's Simulation (src/waver/components/simulation.py).     *)
(*                                                                         *)
(* Python's None is the empty sequence << >> and a present value x is the  *)
(* one-element sequence <<x>>.  The outcome of a call is a record          *)
(* [exc, ret]: exc is the name of the exception raised ("None" when the    *)
(* call returned) and ret is the value returned.                           *)
(*                                                                         *)
(* Grid, Time and Source live in modules that are not part of the source   *)
(* tree at hand (_grid, _time, _source); what the Simulation needs of them *)
(* is modelled from the specification:                                     *)
(*   - the grid is one axis of NCells cells;                               *)
(*   - time is counted in integer units, and a Time holds its step and     *)
(*     nsteps = ceil(duration / step);                                     *)
(*   - a source's frequency is counted in half cycles per unit of time and *)
(*     its phase in quarter cycles, so that its sinusoid is sampled where  *)
(*     it takes the values 0, 1, 0, -1.                                    *)
(***************************************************************************)
EXTENDS Integers, Sequences, FiniteSets

(***************************************************************************)
(* Bounds of the model.                                                    *)
(***************************************************************************)
NCells == 1
MaxDuration == 4
MaxNSteps == 2
MaxStep == 2
MaxFreq == 1
MaxCycles == 1
MaxPhase == 1
Precision == 4
MaxNdim == 3
MaxDigit == 9
MaxDecimals == 1
MaxSpeed == 4

None == << >>
Some(x) == <<x>>

Return(v) == [exc |-> "None", ret |-> v]
Raise(e) == [exc |-> e, ret |-> None]

(***************************************************************************)
(* Time(step, duration): nsteps is the number of steps that cover the      *)
(* duration, rounded up.                                                   *)
(***************************************************************************)
Time(step, duration) ==
    [step |-> step, nsteps |-> (duration + step - 1) \div step]

(***************************************************************************)
(* Source(location, shape, spacing, frequency, ncycles, phase).            *)
(* SourceError is the exception the constructor raises, "None" if it       *)
(* builds the source.                                                      *)
(***************************************************************************)
SourceError(location, frequency, ncycles) ==
    IF frequency <= 0 THEN "ConfigurationError"
    ELSE IF ncycles # None /\ ncycles[1] <= 0 THEN "ConfigurationError"
    ELSE IF location # None /\ ~(location[1] \in 0..(NCells - 1)) THEN "RangeError"
    ELSE "None"

Source(location, frequency, ncycles, phase) ==
    [location |-> location, frequency |-> frequency,
     ncycles |-> ncycles, phase |-> phase]

\* sin(2*pi*q/4) for a whole number q of quarter cycles
Sinusoid(q) ==
    CASE q % 4 = 0 -> 0
      [] q % 4 = 1 -> 1
      [] q % 4 = 2 -> 0
      [] q % 4 = 3 -> -1

\* the spatial weight of the source: one cell, or the whole axis
Mask(src) ==
    [c \in 0..(NCells - 1) |->
        IF src.location = None \/ src.location = Some(c) THEN 1 ELSE 0]

\* Source.value(t): the mask times the sinusoid, zero after ncycles cycles
value(src, t) ==
    LET s == IF src.ncycles # None /\ src.frequency * t > 2 * src.ncycles[1]
             THEN 0
             ELSE Sinusoid(2 * src.frequency * t + src.phase)
    IN  [c \in 0..(NCells - 1) |-> Mask(src)[c] * s]

ZeroField == [c \in 0..(NCells - 1) |-> 0]

(***************************************************************************)
(* Floating point.  __init__ derives the time step in binary floating      *)
(* point (IEEE double: 53 significant bits, round to nearest, ties to      *)
(* even).  The model keeps the arithmetic and narrows the significand to   *)
(* Precision bits: a positive float is [m, e] with value m * 2^e and       *)
(* 2^(Precision-1) <= m < 2^Precision, and zero is [m |-> 0, e |-> 0].     *)
(* Exponents are not limited: neither overflow nor underflow is modelled.  *)
(***************************************************************************)
RECURSIVE Pow(_, _)
Pow(b, n) == IF n = 0 THEN 1 ELSE b * Pow(b, n - 1)

FZero == [m |-> 0, e |-> 0]

\* (n / d) * 2^e, scaled so that 2^(Precision-1) <= n / d < 2^Precision
RECURSIVE Norm(_, _, _)
Norm(n, d, e) ==
    IF n >= Pow(2, Precision) * d THEN Norm(n, 2 * d, e + 1)
    ELSE IF n < Pow(2, Precision - 1) * d THEN Norm(2 * n, d, e - 1)
    ELSE [n |-> n, d |-> d, e |-> e]

\* the float nearest to (n / d) * 2^e, for integers n > 0 and d > 0
Round(n, d, e) ==
    LET s == Norm(n, d, e)
        q == s.n \div s.d
        r == s.n % s.d
        m == IF 2 * r > s.d \/ (2 * r = s.d /\ q % 2 = 1) THEN q + 1 ELSE q
    IN  IF m = Pow(2, Precision)
        THEN [m |-> Pow(2, Precision - 1), e |-> s.e + 1]
        ELSE [m |-> m, e |-> s.e]

FMul(x, y) == Round(x.m * y.m, 1, x.e + y.e)
FDiv(x, y) == Round(x.m, y.m, x.e - y.e)

\* m * 2^e <= n * 2^f, for integers m > 0 and n > 0
LeScaled(m, e, n, f) ==
    IF e >= f
    THEN (e - f < 30) /\ (m <= n \div Pow(2, e - f))
    ELSE (f - e >= 30) \/ ((m + Pow(2, f - e) - 1) \div Pow(2, f - e) <= n)

\* 10^k <= x, for a positive float x and an integer k
GePow10(x, k) ==
    IF k >= 0 THEN LeScaled(Pow(10, k), 0, x.m, x.e)
    ELSE LeScaled(1, 0, x.m * Pow(10, -k), x.e)

\* float(n) ** 0.5 for an integer n >= 1: the float nearest to its root
FSqrt(n) ==
    LET e == CHOOSE f \in (0 - Precision)..0 :
                 \E m \in Pow(2, Precision - 1)..(Pow(2, Precision) - 1) :
                     /\ (2 * m - 1) * (2 * m - 1) <= 4 * n * Pow(4, -f)
                     /\ 4 * n * Pow(4, -f) < (2 * m + 1) * (2 * m + 1)
        m == CHOOSE k \in Pow(2, Precision - 1)..(Pow(2, Precision) - 1) :
                 /\ (2 * k - 1) * (2 * k - 1) <= 4 * n * Pow(4, -e)
                 /\ 4 * n * Pow(4, -e) < (2 * k + 1) * (2 * k + 1)
    IN  [m |-> m, e |-> e]

\* np.floor of a positive float, as an integer
Floor(x) ==
    IF x.e >= 0 THEN x.m * Pow(2, x.e) ELSE x.m \div Pow(2, -x.e)

\* 10^(1 / 2^j) to three decimals, in thousandths
Root10(j) ==
    CASE j = 0 -> 10000
      [] j = 1 -> 3162
      [] j = 2 -> 1778
      [] j = 3 -> 1334
      [] j = 4 -> 1155
      [] j = 5 -> 1075
      [] j = 6 -> 1037
      [] j = 7 -> 1018
      [] j = 8 -> 1009

\* np.floor(np.log10(x)) for a positive float x.  k is the floor of the
\* exact logarithm.  The logarithm itself is rounded to a float before the
\* floor is taken: when it lies within half a unit in the last place of
\* the integer k + 1, it is rounded to k + 1.  That half unit is 2^(-j).
FloorLog10(x) ==
    LET k == CHOOSE i \in -6..3 : GePow10(x, i) /\ ~GePow10(x, i + 1)
        K == k + 1
        a == Round(IF K < 0 THEN -K ELSE K, 1, 0)
        j == IF K > 0 /\ a.m = Pow(2, Precision - 1) THEN 2 - a.e ELSE 1 - a.e
        \* 10^K / x <= 10^(2^(-j))
        near == IF K > 0
                THEN LeScaled(1000 * Pow(10, K), 0, Root10(j) * x.m, x.e)
                ELSE LeScaled(1000, 0, Root10(j) * x.m * Pow(10, -K), x.e)
    IN  IF K # 0 /\ near THEN K ELSE k

\* np.power(10, k) for an integer-valued k
Power10(k) ==
    IF k >= 0 THEN Round(Pow(10, k), 1, 0) ELSE Round(1, Pow(10, -k), 0)

\* coef * power, the product of an integer and a float
IMul(n, x) ==
    IF n = 0 THEN FZero ELSE Round(n * x.m, 1, x.e)

(***************************************************************************)
(* The values of a float that are not positive numbers: zero (FZero),      *)
(* infinity and not-a-number.  max_speed is a numpy float, so a division   *)
(* by zero gives infinity (with a warning) and raises nothing.  Negative   *)
(* numbers are not modelled.                                               *)
(***************************************************************************)
FInf == [m |-> -1, e |-> 0]
FNaN == [m |-> -2, e |-> 0]

\* x / y
XDiv(x, y) ==
    IF x = FNaN \/ y = FNaN THEN FNaN
    ELSE IF x = FInf THEN (IF y = FInf THEN FNaN ELSE FInf)
    ELSE IF x = FZero THEN (IF y = FZero THEN FNaN ELSE FZero)
    ELSE IF y = FZero THEN FInf
    ELSE IF y = FInf THEN FZero
    ELSE FDiv(x, y)

\* np.floor(np.log10(x)): an integer n, or minus infinity, infinity, nan
XFloorLog10(x) ==
    IF x = FNaN THEN [kind |-> "nan", n |-> 0]
    ELSE IF x = FInf THEN [kind |-> "inf", n |-> 0]
    ELSE IF x = FZero THEN [kind |-> "-inf", n |-> 0]
    ELSE [kind |-> "int", n |-> FloorLog10(x)]

\* np.power(10, k)
XPower10(k) ==
    CASE k.kind = "nan" -> FNaN
      [] k.kind = "inf" -> FInf
      [] k.kind = "-inf" -> FZero
      [] k.kind = "int" -> Power10(k.n)

\* an int() that turns nan and infinity into a number instead of raising
IntError_lenient(x) ==
    "None"

\* the exception int(np.floor(x)) raises, "None" if it returns
IntError(x) ==
    IF x = FNaN THEN "ValueError"
    ELSE IF x = FInf THEN "OverflowError"
    ELSE "None"

\* int(np.floor(x)) where it returns
XFloor(x) ==
    IF x.m > 0 THEN Floor(x) ELSE 0

(***************************************************************************)
(* Simulation.__init__, the derivation of the time step from the           *)
(* dimensionality, the spacing and the maximum speed of the grid.  exc is  *)
(* the exception raised on the way, "None" if the step is derived.         *)
(***************************************************************************)
derive_step(ndim, spacing, max_speed) ==
    LET courant_number == FSqrt(ndim)
        max_step == XDiv(FMul(courant_number, spacing), max_speed)
        exponent == XFloorLog10(max_step)
        power == XPower10(exponent)
        quotient == XDiv(max_step, power)
        exc == IntError(quotient)
        coef == XFloor(quotient)
        step == IF power.m > 0 THEN IMul(coef, power)
                ELSE IF power = FInf THEN (IF coef = 0 THEN FNaN ELSE FInf)
                ELSE power
    IN  [exc |-> exc, max_step |-> max_step, exponent |-> exponent.n,
         power |-> power, coef |-> coef, step |-> step]

(***************************************************************************)
(* Grid(size, spacing, speed), as far as __init__ uses it: the grid has    *)
(* ndim axes of NCells cells each.  It accepts any speed.                  *)
(***************************************************************************)
Grid(ndim, spacing, speed) ==
    [ndim |-> ndim, shape |-> [i \in 1..ndim |-> NCells],
     spacing |-> spacing, speed |-> speed]

(***************************************************************************)
(* Time(step, duration) on floats: a step that is not positive is          *)
(* rejected, and nsteps is the quotient rounded up to an integer.          *)
(***************************************************************************)
Ceil(x) ==
    IF x.m <= 0 THEN 0
    ELSE IF x.e >= 0 THEN x.m * Pow(2, x.e)
    ELSE (x.m + Pow(2, -x.e) - 1) \div Pow(2, -x.e)

FTime(step, duration) ==
    LET q == XDiv(duration, step)
        exc == IF step = FZero THEN "ConfigurationError"
               ELSE IF q = FNaN THEN "ValueError"
               ELSE IF q = FInf THEN "OverflowError"
               ELSE "None"
    IN  [exc |-> exc, step |-> step, nsteps |-> Ceil(q)]

\* np.zeros(shape): an array of arrays, one level for each axis
RECURSIVE zeros(_)
zeros(shape) ==
    IF shape = << >> THEN 0
    ELSE [i \in 0..(Head(shape) - 1) |-> zeros(Tail(shape))]

VARIABLES
    time,          \* self._time
    _source,       \* self._source: None or Some(Source)
    _run,          \* self._run
    _wave,         \* self._wave: time slice -> field
    pc,            \* "idle", or "loop" while run() is in its for loop
    current_step,  \* how many items of range(nsteps) run() has taken
    lastOp,        \* the most recent call
    result,        \* its outcome
    args,          \* the arguments of the most recent call, if it took valid ones
    built,         \* history: the Source of the most recent successful add_source
    completed,     \* history: a run() completed since the most recent add_source
    entry_run,     \* history: self._run when the most recent add_source or run began
    init_args,     \* the arguments of __init__ whose step is being derived
    init_out,      \* None, or the locals of __init__ once the step is derived
    attrs,         \* the attributes of self that have been assigned
    writes         \* the slice indices assigned by the run() in progress

vars == <<time, _source, _run, _wave, pc, current_step, lastOp, result,
          args, built, completed, entry_run, init_args, init_out, attrs,
          writes>>

ctor == <<init_args, init_out, attrs>>

Attributes == {"_grid", "_time", "_wave", "_source", "_run"}

state == <<time, _source, _run, _wave>>

TypeOK ==
    /\ _run \in BOOLEAN
    /\ pc \in {"idle", "loop"}
    /\ current_step \in 0..time.nsteps

(***************************************************************************)
(* Simulation.__init__, from self._time on: the wave array is zero, there  *)
(* is no source and nothing has run.                                       *)
(***************************************************************************)
Init ==
    /\ \E step \in 1..MaxStep, duration \in 1..MaxDuration :
          /\ Time(step, duration).nsteps <= MaxNSteps
          /\ time = Time(step, duration)
          /\ _wave = [k \in 0..(Time(step, duration).nsteps - 1) |-> ZeroField]
    /\ _source = None
    /\ _run = FALSE
    /\ pc = "idle"
    /\ current_step = 0
    /\ lastOp = "__init__"
    /\ result = Return(None)
    /\ args = None
    /\ built = None
    /\ completed = FALSE
    /\ entry_run = FALSE
    /\ init_args = None
    /\ init_out = None
    /\ attrs = Attributes
    /\ writes = << >>

\* a wave property that forgets to test self._run
wave_unguarded(run, w) ==
    Return(w)

(***************************************************************************)
(* The property Simulation.wave.                                           *)
(***************************************************************************)
wave(run, w) ==
    IF run THEN Return(w) ELSE Raise("ValueError")

(***************************************************************************)
(* The property Simulation.source.                                         *)
(***************************************************************************)
source(src) ==
    IF src = None THEN Raise("ValueError") ELSE Return(src[1])

ReadWave ==
    /\ pc = "idle"
    /\ lastOp' = "wave"
    /\ result' = wave(_run, _wave)
    /\ entry_run' = FALSE
    /\ args' = None
    /\ UNCHANGED <<state, pc, current_step, built, completed>>
    /\ UNCHANGED <<ctor, writes>>

ReadSource ==
    /\ pc = "idle"
    /\ lastOp' = "source"
    /\ result' = source(_source)
    /\ entry_run' = FALSE
    /\ args' = None
    /\ UNCHANGED <<state, pc, current_step, built, completed>>
    /\ UNCHANGED <<ctor, writes>>

\* an add_source that forgets to reset self._run
add_source_keeps_run(self_run, self_source, location, frequency, ncycles, phase) ==
    LET err == SourceError(location, frequency, ncycles)
    IN  [_run |-> self_run,
         _source |-> IF err = "None"
                     THEN Some(Source(location, frequency, ncycles, phase))
                     ELSE self_source,
         result |-> IF err = "None" THEN Return(None) ELSE Raise(err)]

\* an add_source that drops the old source when the new one cannot be built
add_source_drops_source(self_run, self_source, location, frequency, ncycles, phase) ==
    LET err == SourceError(location, frequency, ncycles)
    IN  [_run |-> FALSE,
         _source |-> IF err = "None"
                     THEN Some(Source(location, frequency, ncycles, phase))
                     ELSE None,
         result |-> IF err = "None" THEN Return(None) ELSE Raise(err)]

\* an add_source that resets self._run only when the Source cannot be built
add_source_resets_on_error(self_run, self_source, location, frequency, ncycles, phase) ==
    LET err == SourceError(location, frequency, ncycles)
    IN  [_run |-> IF err = "None" THEN self_run ELSE FALSE,
         _source |-> IF err = "None"
                     THEN Some(Source(location, frequency, ncycles, phase))
                     ELSE self_source,
         result |-> IF err = "None" THEN Return(None) ELSE Raise(err)]

\* an add_source that builds the Source first and resets self._run after
add_source_build_first(self_run, self_source, location, frequency, ncycles, phase) ==
    LET err == SourceError(location, frequency, ncycles)
    IN  [_run |-> IF err = "None" THEN FALSE ELSE self_run,
         _source |-> IF err = "None"
                     THEN Some(Source(location, frequency, ncycles, phase))
                     ELSE self_source,
         result |-> IF err = "None" THEN Return(None) ELSE Raise(err)]

(***************************************************************************)
(* Simulation.add_source: the flag is reset first, then the Source is      *)
(* built; if its constructor raises, self._source is not assigned.         *)
(***************************************************************************)
add_source(self_run, self_source, location, frequency, ncycles, phase) ==
    LET err == SourceError(location, frequency, ncycles)
    IN  [_run |-> FALSE,
         _source |-> IF err = "None"
                     THEN Some(Source(location, frequency, ncycles, phase))
                     ELSE self_source,
         result |-> IF err = "None" THEN Return(None) ELSE Raise(err)]

Locations == {None} \cup {Some(i) : i \in 0..NCells}
Frequencies == 0..MaxFreq
Cycles == {None} \cup {Some(n) : n \in 0..MaxCycles}
Phases == 0..MaxPhase

\* Source looks at the phase only once the other arguments are accepted
PhasesRead(location, frequency, ncycles) ==
    IF SourceError(location, frequency, ncycles) = "None" THEN Phases ELSE {0}

AddSource ==
    /\ pc = "idle"
    /\ \E location \in Locations, frequency \in Frequencies, ncycles \in Cycles :
       \E phase \in PhasesRead(location, frequency, ncycles) :
          LET out == add_source(_run, _source, location, frequency, ncycles, phase)
          IN  /\ _run' = out._run
              /\ _source' = out._source
              /\ result' = out.result
              /\ args' = IF SourceError(location, frequency, ncycles) = "None"
                         THEN Some(Source(location, frequency, ncycles, phase))
                         ELSE None
              /\ built' = IF out.result.exc = "None" THEN out._source ELSE built
    /\ lastOp' = "add_source"
    /\ completed' = FALSE
    /\ entry_run' = _run
    /\ UNCHANGED <<time, _wave, pc, current_step>>
    /\ UNCHANGED <<ctor, writes>>

\* a run() without the test for a missing source
run_check_skipped(self_source) ==
    Return(None)

\* a loop body that evaluates the source at the step index, not at the time
run_body_at_index(self_wave, self_time, self_source, step) ==
    [self_wave EXCEPT ![step] = value(self_source, step)]

\* a loop body that adds the source to the slice instead of assigning it
run_body_accumulates(self_wave, self_time, self_source, step) ==
    [self_wave EXCEPT ![step] =
        [c \in DOMAIN @ |-> @[c] + value(self_source, self_time.step * step)[c]]]

(***************************************************************************)
(* Simulation.run.  run_check is the test before the loop, run_body one    *)
(* iteration of the loop; the loop is entered with current_step = 0 and    *)
(* left, setting self._run, when range(nsteps) is exhausted.  The body     *)
(* reads the source through the property self.source.  An exception        *)
(* raised inside the loop (by the property, by the source, by the          *)
(* assignment, or an interrupt) leaves run() at once: there is no handler. *)
(***************************************************************************)
run_check(self_source) ==
    IF self_source = None THEN Raise("ValueError") ELSE Return(None)

\* a range that counts down
range_reversed(n) ==
    [i \in 1..n |-> n - i]

\* range(n), line 89: the items 0, 1, ..., n - 1 in the order they are taken
range(n) ==
    [i \in 1..n |-> i - 1]

run_body(self_wave, self_time, self_source, step) ==
    [self_wave EXCEPT ![step] = value(self_source, self_time.step * step)]

Pending == [exc |-> "pending", ret |-> None]

Run ==
    /\ pc = "idle"
    /\ lastOp' = "run"
    /\ entry_run' = _run
    /\ IF run_check(_source).exc # "None"
       THEN /\ result' = run_check(_source)
            /\ UNCHANGED <<pc, current_step>>
       ELSE /\ result' = Pending
            /\ pc' = "loop"
            /\ current_step' = 0
    /\ args' = None
    /\ UNCHANGED <<state, built, completed>>
    /\ UNCHANGED <<ctor, writes>>

\* an iteration that starts over instead of taking the next item
RunStep_stuck ==
    /\ pc = "loop"
    /\ current_step < time.nsteps
    /\ source(_source).exc = "None"
    /\ _wave' = run_body(_wave, time, source(_source).ret,
                         range(time.nsteps)[1])
    /\ writes' = <<range(time.nsteps)[1]>>
    /\ UNCHANGED <<pc, result, current_step>>
    /\ UNCHANGED <<time, _source, _run, lastOp, args, built, completed,
                   entry_run>>
    /\ UNCHANGED ctor

RunStep ==
    /\ pc = "loop"
    /\ current_step < Len(range(time.nsteps))
    /\ IF source(_source).exc # "None"
       THEN /\ pc' = "idle"
            /\ result' = source(_source)
            /\ current_step' = 0
            /\ writes' = << >>
            /\ UNCHANGED _wave
       ELSE /\ _wave' = run_body(_wave, time, source(_source).ret,
                                 range(time.nsteps)[current_step + 1])
            /\ writes' = Append(writes, range(time.nsteps)[current_step + 1])
            /\ current_step' = current_step + 1
            /\ UNCHANGED <<pc, result>>
    /\ UNCHANGED <<time, _source, _run, lastOp, args, built, completed,
                   entry_run>>
    /\ UNCHANGED ctor

RunFail ==
    /\ pc = "loop"
    /\ current_step < Len(range(time.nsteps))
    /\ pc' = "idle"
    /\ result' = Raise("Exception")
    /\ current_step' = 0
    /\ writes' = << >>
    /\ UNCHANGED <<state, lastOp, args, built, completed, entry_run>>
    /\ UNCHANGED ctor

RunReturn ==
    /\ pc = "loop"
    /\ current_step = Len(range(time.nsteps))
    /\ _run' = TRUE
    /\ pc' = "idle"
    /\ result' = Return(None)
    /\ completed' = TRUE
    /\ current_step' = 0
    /\ writes' = << >>
    /\ UNCHANGED <<time, _source, _wave, lastOp, args, built, entry_run>>
    /\ UNCHANGED ctor

(***************************************************************************)
(* Simulation.set_boundaries is declared with the single parameter         *)
(* `boundaries` and has the body `pass`.  nargs is the number of           *)
(* positional arguments that reach it: sim.set_boundaries(boundaries)      *)
(* passes two (the instance and the list), sim.set_boundaries() and        *)
(* Simulation.set_boundaries(boundaries) pass one.                         *)
(***************************************************************************)
set_boundaries(nargs) ==
    IF nargs = 1 THEN Return(None) ELSE Raise("TypeError")

SetBoundaries ==
    /\ pc = "idle"
    /\ \E nargs \in 1..2 :
          /\ result' = set_boundaries(nargs)
          /\ args' = Some(nargs)
    /\ lastOp' = "set_boundaries"
    /\ entry_run' = FALSE
    /\ UNCHANGED <<state, pc, current_step, built, completed>>
    /\ UNCHANGED <<ctor, writes>>

Next ==
    \/ AddSource
    \/ Run
    \/ RunStep
    \/ RunFail
    \/ RunReturn
    \/ ReadWave
    \/ ReadSource
    \/ SetBoundaries

Spec == Init /\ [][Next]_vars


(***************************************************************************)
(* The derivation of the step on its own: the arguments of __init__ are    *)
(* drawn from the floats nearest to small decimal literals, and            *)
(* DeriveStep applies lines 37 to 47 of __init__ to them.                  *)
(***************************************************************************)
Ndims == 1..MaxNdim
Spacings == {Round(a, Pow(10, j), 0) : a \in 1..MaxDigit, j \in 0..MaxDecimals}
Speeds == {Round(v, 1, 0) : v \in 1..MaxSpeed}
SpecialSpeeds == {FZero, FInf, FNaN}
Durations == {Round(1, Pow(10, j), 0) : j \in 0..(MaxDecimals + 1)}

\* the arguments whose field array has at most MaxNSteps time slices
SmallField(ndim, spacing, speed, duration) ==
    \A out \in {derive_step(ndim, spacing, speed)} :
        out.exc = "None" =>
            \A t \in {FTime(out.step, duration)} :
                t.exc = "None" => t.nsteps <= MaxNSteps

InitStep ==
    /\ \E ndim \in Ndims, spacing \in Spacings,
          speed \in Speeds \cup SpecialSpeeds, duration \in Durations :
          /\ SmallField(ndim, spacing, speed, duration)
          /\ init_args = Some([ndim |-> ndim, spacing |-> spacing,
                               speed |-> speed, duration |-> duration])
    /\ init_out = None
    /\ attrs = {}
    /\ writes = << >>
    /\ time = Time(1, 1)
    /\ _wave = [k \in 0..0 |-> ZeroField]
    /\ _source = None
    /\ _run = FALSE
    /\ pc = "__init__"
    /\ current_step = 0
    /\ lastOp = "__init__"
    /\ result = Pending
    /\ args = None
    /\ built = None
    /\ completed = FALSE
    /\ entry_run = FALSE

\* lines 33 to 47: the grid is built and the step derived
DeriveStep ==
    /\ pc = "__init__"
    /\ init_out = None
    /\ \E out \in {derive_step(init_args[1].ndim, init_args[1].spacing,
                               init_args[1].speed)} :
           IF out.exc = "None"
           THEN /\ init_out' = Some(out)
                /\ pc' = "__init__ 49"
                /\ UNCHANGED result
           ELSE /\ init_out' = None
                /\ pc' = "idle"
                /\ result' = Raise(out.exc)
    /\ attrs' = {"_grid"}
    /\ UNCHANGED <<state, current_step, lastOp, args, built,
                   completed, entry_run, init_args>>
    /\ UNCHANGED writes

\* a constructor that allocates one time slice too many
init_fields_extra_slice(self_time, self_grid) ==
    [_wave |-> zeros(<<self_time.nsteps + 1>> \o self_grid.shape),
     _source |-> None, _run |-> FALSE]

\* lines 51 to 53
init_fields(self_time, self_grid) ==
    [_wave |-> zeros(<<self_time.nsteps>> \o self_grid.shape),
     _source |-> None, _run |-> FALSE]

\* lines 49 to 53: the Time is built and the remaining attributes assigned
AssignFields ==
    /\ pc = "__init__ 49"
    /\ \E a \in {init_args[1]} :
       \E t \in {FTime(init_out[1].step, a.duration)} :
       \E f \in {init_fields(t, Grid(a.ndim, a.spacing, a.speed))} :
           IF t.exc = "None"
           THEN /\ time' = [step |-> t.step, nsteps |-> t.nsteps]
                /\ _wave' = f._wave
                /\ _source' = f._source
                /\ _run' = f._run
                /\ attrs' = Attributes
                /\ result' = Return(None)
           ELSE /\ result' = Raise(t.exc)
                /\ UNCHANGED <<state, attrs>>
    /\ pc' = "idle"
    /\ UNCHANGED <<current_step, lastOp, args, built, completed, entry_run,
                   init_args, init_out>>
    /\ UNCHANGED writes

NextStep ==
    \/ DeriveStep
    \/ AssignFields

SpecStep == InitStep /\ [][NextStep]_vars


(***************************************************************************)
(* The contract of the accessors and of the run flag.                      *)
(***************************************************************************)
AllZero == \A k \in DOMAIN _wave : _wave[k] = ZeroField

RunResult == [k \in 0..(time.nsteps - 1) |-> value(_source[1], k * time.step)]

\* C1: a read of `wave` returns the field array exactly when self._run is
\* true and raises otherwise; it raises in every state in which no run() has
\* completed since the most recent add_source.
C1_WaveReadableIffRun ==
    lastOp = "wave" =>
        /\ _run => result = Return(_wave)
        /\ ~_run => result = Raise("ValueError")
        /\ ~completed => result.exc # "None"

C1_Witness ==
    /\ lastOp = "wave"
    /\ ~completed
    /\ built # None
    /\ ~AllZero
    /\ result = Raise("ValueError")

\* C2: add_source with valid parameters returns in every state, replaces the
\* source with the newly built Source and clears self._run; self._run becomes
\* true again only when a run() leaves its loop normally.
C2_AddSourceResets ==
    [][ /\ (lastOp' = "add_source" /\ args' # None)
            => /\ result' = Return(None)
               /\ _source' = args'
               /\ ~_run'
               /\ wave(_run', _wave').exc = "ValueError"
        /\ (~_run /\ _run')
            => /\ pc = "loop"
               /\ current_step = time.nsteps
               /\ lastOp' = "run"
               /\ result' = Return(None) ]_vars

C2_Witness ==
    /\ lastOp = "add_source"
    /\ entry_run
    /\ result = Return(None)
    /\ _source = args
    /\ ~_run

\* C3: run() without a source raises before any loop iteration and changes
\* nothing: self._run stays false, there is still no source, the field array
\* is all zeros, and a read of `wave` raises.
C3_RunWithoutSource ==
    [][ (lastOp' = "run" /\ pc = "idle" /\ _source = None)
            => /\ result'.exc = "ValueError"
               /\ pc' = "idle"
               /\ UNCHANGED state
               /\ ~_run'
               /\ _source' = None
               /\ \A k \in DOMAIN _wave' : _wave'[k] = ZeroField
               /\ wave(_run', _wave').exc = "ValueError" ]_vars

C3_Witness ==
    /\ lastOp = "run"
    /\ _source = None
    /\ result = Raise("ValueError")
    /\ pc = "idle"

\* C4: when run() returns normally, every time slice k of the field array is
\* the current source's value at k * time.step, and self._run is true.
C4_RunFillsField ==
    (lastOp = "run" /\ pc = "idle" /\ result = Return(None))
        => /\ _run
           /\ _source # None
           /\ _wave = RunResult

C4_Witness ==
    /\ lastOp = "run"
    /\ pc = "idle"
    /\ result = Return(None)
    /\ time.step > 1
    /\ time.nsteps > 1
    /\ _wave = RunResult
    /\ ~AllZero

\* C5: when a step of run() fails, self._run is false afterwards.
C5_FailedRunNotReadable ==
    (lastOp = "run" /\ pc = "idle" /\ result.exc \notin {"None", "pending"})
        => ~_run

\* C6: the `source` accessor raises as long as no add_source has succeeded,
\* and otherwise returns the Source built by the most recent successful
\* add_source.
C6_SourceAccessor ==
    lastOp = "source" =>
        result = IF built = None THEN Raise("ValueError") ELSE Return(built[1])

C6_Witness ==
    /\ lastOp = "source"
    /\ built # None
    /\ result = Return(built[1])

\* C7: set_boundaries called on a simulation with a list of boundary pairs
\* ends in a NotImplementedError.
C7_SetBoundariesNotImplemented ==
    (lastOp = "set_boundaries" /\ args = Some(2))
        => result.exc = "NotImplementedError"

\* C8: set_boundaries called on a simulation with a list of boundary pairs
\* is accepted (it returns) and changes neither the source, the run flag,
\* the field array nor the time.
C8_SetBoundariesInert ==
    [][ (lastOp' = "set_boundaries" /\ args' = Some(2))
            => /\ result'.exc = "None"
               /\ UNCHANGED state ]_vars

(***************************************************************************)
(* The derived time step.                                                  *)
(***************************************************************************)
\* x <= sqrt(n) * y / z for floats x, y > 0, z > 0 and an integer n >= 1,
\* in exact arithmetic: (x * z)^2 <= n * y^2
LeBound(x, n, y, z) ==
    \/ x.m = 0
    \/ LeScaled((x.m * z.m) * (x.m * z.m), 2 * (x.e + z.e),
                n * y.m * y.m, 2 * y.e)

\* C9: the derived step never exceeds the stability bound
\* sqrt(ndim) * spacing / max(speed).
C9_StepWithinBound ==
    init_out # None =>
        LeBound(init_out[1].step, init_args[1].ndim, init_args[1].spacing,
                init_args[1].speed)

\* C10: the coefficient of the derived step is an integer from 1 to 9, so
\* that the step has one leading significant digit and is strictly positive.
C10_SingleLeadingDigit ==
    init_out # None =>
        /\ init_out[1].coef \in 1..9
        /\ init_out[1].step.m > 0

(***************************************************************************)
(* C11: constructing a Simulation whose maximum grid speed is 0 or not     *)
(* finite fails at construction with the error class of the code           *)
(* (ValueError), before the Time and the field array are assigned.         *)
(***************************************************************************)
C11_UndefinedStepFails ==
    (init_args # None /\ init_args[1].speed \in SpecialSpeeds
                      /\ pc # "__init__")
        => /\ pc = "idle"
           /\ result = Raise("ValueError")
           /\ init_out = None
           /\ attrs \cap {"_time", "_wave"} = {}

C11_Witness ==
    /\ init_args # None
    /\ init_args[1].speed = FZero
    /\ pc = "idle"
    /\ result.exc = "ValueError"

\* a is an array of the given shape whose entries are all 0
RECURSIVE IsZeroArray(_, _)
IsZeroArray(a, shape) ==
    IF shape = << >> THEN a = 0
    ELSE /\ DOMAIN a = 0..(Head(shape) - 1)
         /\ \A i \in DOMAIN a : IsZeroArray(a[i], Tail(shape))

Constructed ==
    /\ init_args # None
    /\ lastOp = "__init__"
    /\ pc = "idle"
    /\ result = Return(None)

(***************************************************************************)
(* C12: right after a successful construction there is no source, the      *)
(* simulation has not run, and the field array is an array of zeros of     *)
(* shape (time.nsteps,) + grid.shape.                                      *)
(***************************************************************************)
C12_InitialState ==
    Constructed
        => /\ _source = None
           /\ _run = FALSE
           /\ IsZeroArray(_wave, <<time.nsteps>>
                                 \o [i \in 1..init_args[1].ndim |-> NCells])

C12_Witness ==
    /\ Constructed
    /\ time.nsteps >= 2
    /\ init_args[1].ndim >= 2
    /\ IsZeroArray(_wave[1], [i \in 1..init_args[1].ndim |-> NCells])

(***************************************************************************)
(* C14: within one run() the slices are assigned in the order 0, 1, ...,   *)
(* nsteps - 1: every assignment is to the index after the last one, and    *)
(* run() returns only when each index has been assigned exactly once.      *)
(***************************************************************************)
C14_SequentialWrites ==
    [][ /\ (pc' = "loop" /\ writes' # writes)
            => writes' = Append(writes, Len(writes))
        /\ (pc = "loop" /\ result' = Return(None))
            => writes = [i \in 1..time.nsteps |-> i - 1] ]_vars

C14_Witness ==
    /\ pc = "loop"
    /\ time.nsteps >= 2
    /\ writes = <<0, 1>>

(***************************************************************************)
(* The loop of run() under the interpreter's scheduling: a statement that  *)
(* can execute does execute, so an iteration that is due is taken and the  *)
(* return after the last one happens.  A failure inside an iteration is    *)
(* possible but never forced.                                              *)
(***************************************************************************)
FairSpec ==
    Spec /\ WF_vars(RunStep \/ RunReturn)

(***************************************************************************)
(* C15: a run() that entered its loop always leaves it, after exactly      *)
(* nsteps iterations or at the first failing one, and when it returns      *)
(* without a failure the simulation has run.                               *)
(***************************************************************************)
C15_RunTerminates ==
    /\ (pc = "loop") ~> (pc = "idle" /\ (result = Return(None) => _run))
    /\ [][ (pc = "loop" /\ pc' = "idle" /\ result'.exc = "None")
              => (current_step = time.nsteps /\ _run') ]_vars
    /\ [](pc = "loop" => current_step <= time.nsteps)

C15_Witness ==
    /\ lastOp = "run"
    /\ pc = "idle"
    /\ result = Return(None)
    /\ _run
    /\ time.nsteps >= 2

(***************************************************************************)
(* C17: whenever self._run is true a source is set and every slice k of    *)
(* the field array is the value of that source at k * time.step, so the    *)
(* wave accessor never hands out data of an earlier source.                *)
(***************************************************************************)
C17_NoStaleField ==
    _run => /\ _source # None
            /\ _wave = RunResult
            /\ wave(_run, _wave) = Return(RunResult)

C17_Witness ==
    /\ _run
    /\ pc = "loop"
    /\ current_step >= 1
    /\ _source # None
    /\ _wave = RunResult
    /\ ~AllZero

(***************************************************************************)
(* C18: an add_source that fails on a simulation that has a source leaves  *)
(* that source, the time and the field array as they were, and self._run   *)
(* is false afterwards, because the reset precedes the build.              *)
(***************************************************************************)
C18_FailedAddSource ==
    [][ (lastOp' = "add_source" /\ result'.exc # "None" /\ _source # None)
            => /\ _source' = _source
               /\ _run' = FALSE
               /\ UNCHANGED <<time, _wave>> ]_vars

C18_Witness ==
    /\ lastOp = "add_source"
    /\ result.exc # "None"
    /\ entry_run
    /\ _source # None
    /\ ~_run

(***************************************************************************)
(* C19: a run() started when the simulation has already run, so with the   *)
(* source of the completed run, changes neither the field array nor        *)
(* self._run at any of its steps.                                          *)
(***************************************************************************)
C19_RerunIdempotent ==
    [][ (lastOp = "run" /\ entry_run /\ pc = "loop")
            => /\ _wave' = _wave
               /\ _run /\ _run'
               /\ (pc' = "idle" /\ result'.exc = "None") => _wave' = RunResult ]_vars

C19_Witness ==
    /\ lastOp = "run"
    /\ entry_run
    /\ pc = "idle"
    /\ result = Return(None)
    /\ completed
    /\ time.nsteps > 1
    /\ ~AllZero

=============================================================================
